---------------------------- MODULE Spec2Model ----------------------------
(***************************************************************************)
(* VideoCaptioner (src/src/aihelper.py): one run of process() over one     *)
(* video.  process() calls extract_audio, separate_audio,                  *)
(* detect_vocal_segments and generate_srt in sequence on one thread and    *)
(* removes the intermediate files in its finally block.                    *)
(*                                                                         *)
(* Times are held in whole milliseconds: the source computes               *)
(* i * frame_duration / 1000 seconds with frame_duration in milliseconds,  *)
(* so the time of frame i is the integer i * frame_duration ms, and        *)
(* min_duration (0.5 s by default) is 500 ms.                              *)
(*                                                                         *)
(* The player window (src/src/main.py) is modelled by variables of its     *)
(* own: the polling threads, MainWindow's playback and slider state, and   *)
(* the volume controls.  They stay as constructed during a run of          *)
(* process().                                                              *)
(***************************************************************************)
EXTENDS Integers, Sequences, FiniteSets

VARIABLES
    pc,              \* position of process() in its body
    files,           \* names of the files that exist on disk
    err,             \* stage whose exception reached process(), or "none"
    audio_len,       \* len(audio_int16): samples of the vocals at 16 kHz
    vad,             \* vad.is_speech(...) for each full frame, in frame order
    frame_duration,  \* detect_vocal_segments parameter, ms
    min_duration,    \* detect_vocal_segments parameter, ms
    i,               \* loop index of the frame scan
    start,           \* open interval's start time, or None
    timestamps,      \* list of (start, end) built by the scan
    csv,             \* contents of vocal_timestamps.csv
    df,              \* DataFrame read back by generate_srt
    idx,             \* position of generate_srt's loop in df
    srt,             \* entries written to the .srt file so far
    dispatched,      \* history: idx of every clip extraction that was started
    failed,          \* history: idx of every segment whose extract/transcribe raised
    clips,           \* history: the (-ss, -to) interval of every clip extraction
    cancel_requested, \* the caller has asked for the run to be cancelled
    \* a polling thread (SliderSyncThread, PlaybackTimeThread, VideoPlayerThread)
    thread_class,    \* which of the three classes the thread is
    thread_pc,       \* position of the thread: start() and the body of run()
    running,         \* self.running
    stop_pc,         \* position of the caller of stop()
    iterations_after_stop, \* history: loop iterations begun after stop()'s assignment
    signal,          \* value of the last signal the thread emitted, or None
    signal_pending,  \* an emitted signal waits in the receiver's event queue
    \* MainWindow: playback and the position slider
    is_playing,      \* self.is_playing
    controls_enabled, \* play_btn and horizontalSlider are enabled
    player_cmd,      \* what media_player was last told: none, play, pause, stop
    end_reached,     \* the player has played its media to the end
    playing_media,   \* the media the player was last told to play, or None
    currentMediaLocation, \* self.currentMediaLocation, or None
    loading,         \* file_loaded_signal emissions not yet handled
    slider_value,    \* horizontalSlider.value(), seconds
    slider_maximum,  \* horizontalSlider.maximum(), seconds
    slider_dragging, \* self.slider_dragging
    slider_sync_thread, \* self.slider_sync_thread is not None
    thread_leaked,   \* a SliderSyncThread still alive is no longer held by MainWindow
    last,            \* history: the handler of MainWindow that ran last
    \* MainWindow: volume
    volume_slider,   \* horizontalSlider_2.value()
    player_volume,   \* what audio_set_volume was last given
    storedVolume,    \* self.storedVolume
    volume_before_mute \* history: the volume when the sound button last muted

caption_vars == <<pc, files, err, audio_len, vad, frame_duration, min_duration,
                  i, start, timestamps, csv, df, idx, srt, dispatched, failed,
                  clips, cancel_requested>>

thread_vars == <<thread_class, thread_pc, running, stop_pc, iterations_after_stop,
                 signal, signal_pending>>

window_vars == <<is_playing, controls_enabled, player_cmd, end_reached,
                 playing_media, currentMediaLocation, loading, slider_value,
                 slider_maximum, slider_dragging, slider_sync_thread,
                 thread_leaked, last>>

volume_vars ==
    <<volume_slider, player_volume, storedVolume, volume_before_mute>>

ui_vars == <<thread_vars, window_vars, volume_vars>>

vars == <<caption_vars, ui_vars>>

-----------------------------------------------------------------------------
(* Bounds of the model and constants of the program *)

MaxFrames == 5
SampleRate == 16000
MsPerSecond == 1000

FrameDurations == {20, 30, 1000}
MinDurations == {0, 60, 500, 2000}
Texts == {"", "hello"}

\* times (ms) given to generate_srt directly: 0, sub-second values, the field
\* boundaries, 1.13 s, 3661.5 s, 3662.998 s, 3662.999 s, 99:59:59,999, 100 h
TimeInputs ==
    {0, 1, 290, 999, 1000, 1130, 59999, 60000, 3599999, 3600000,
     3661500, 3662998, 3662999, 359999999, 360000000}

\* speech,speech,silence,silence,speech,speech,speech,silence,silence,silence
ExamplePattern == <<TRUE, TRUE, FALSE, FALSE, TRUE, TRUE, TRUE, FALSE, FALSE, FALSE>>

None == -1

audio_path == "temp_audio.wav"
vocal_path == "vocals.wav"
vocal_csv == "vocal_timestamps.csv"
output_srt == "captions.srt"
\* f"segment_{idx}.wav"
segment_audio(k) ==
    <<"segment_0.wav", "segment_1.wav", "segment_2.wav", "segment_3.wav",
      "segment_4.wav", "segment_5.wav", "segment_6.wav", "segment_7.wav">>[k + 1]

-----------------------------------------------------------------------------
(* detect_vocal_segments: framing *)

frame_size(fd) == (SampleRate * fd) \div MsPerSecond

\* frames = [audio[k:k + frame_size] for k in range(0, len(audio), frame_size)]
NumFrames(len, fd) == (len + frame_size(fd) - 1) \div frame_size(fd)

FrameLenPadded(k, len, fd) == frame_size(fd)

FrameLen(k, len, fd) ==
    IF len - k * frame_size(fd) < frame_size(fd)
    THEN len - k * frame_size(fd)
    ELSE frame_size(fd)

FrameTimeAtFrameEnd(k, fd) == (k + 1) * fd

FrameTimeInWholeSeconds(k, fd) == ((k * fd) \div MsPerSecond) * MsPerSecond

FrameTime(k, fd) == k * fd

OpensOnAnyFrame(is_speech, st) == st = None

OpensInterval(is_speech, st) == is_speech /\ st = None

ClosesInterval(is_speech, st) == ~is_speech /\ st # None

KeepEveryInterval(s, e, md) == e - s >= 0

\* `end - start >= min_duration`, compared here on exact milliseconds (the
\* source subtracts two floats, which can fall just short of an exact tie)
KeepInterval(s, e, md) == e - s >= md

StartNeverReset(s, e, md) == s

StartResetOnlyWhenKept(s, e, md) == IF e - s >= md THEN None ELSE s

\* `start = None` follows the if, so it runs whether or not the interval is kept
StartAfterClose(s, e, md) == None

-----------------------------------------------------------------------------
(* generate_srt: the csv round trip and the entry written per row *)

to_csv(ts) == [header |-> <<"Start Time (s)", "End Time (s)">>, rows |-> ts]

read_csv_last_row_first(c) ==
    [k \in 1..Len(c.rows) |->
        [index |-> k - 1,
         start_time |-> c.rows[Len(c.rows) + 1 - k][1],
         end_time |-> c.rows[Len(c.rows) + 1 - k][2]]]

\* read_csv gives the rows a RangeIndex 0..n-1
read_csv(c) ==
    [k \in 1..Len(c.rows) |->
        [index |-> k - 1, start_time |-> c.rows[k][1], end_time |-> c.rows[k][2]]]

(* format_time.  time_in_seconds is the double nearest to t / 1000, where t is
   the time in whole milliseconds.  `//`, `%` and int() on it give the exact
   floors, so hours, minutes and seconds are the integer cascade.  The
   millisecond field is int((x - int(x)) * 1000) in double arithmetic: the
   subtraction is exact, the product is rounded to the nearest double and then
   truncated.  With r = t % 1000, the fraction is (r * 2^s + d) / (1000 * 2^s),
   where 2^-s is the spacing of doubles at x and d is the rounding residual of
   x, so the product is r + d / 2^s before rounding. *)

RECURSIVE FloorLog2(_)
FloorLog2(n) == IF n < 2 THEN 0 ELSE 1 + FloorLog2(n \div 2)

RECURSIVE Pow2(_)
Pow2(k) == IF k = 0 THEN 1 ELSE 2 * Pow2(k - 1)

\* 2^s modulo m, eight doublings at a step
RECURSIVE Pow2Mod(_, _)
Pow2Mod(sh, m) ==
    IF sh < 8 THEN Pow2(sh) % m ELSE (Pow2(8) * Pow2Mod(sh - 8, m)) % m

\* least k with r * 2^k >= 1000, for 0 < r < 1000
RECURSIVE ShiftToUnit(_, _)
ShiftToUnit(r, k) == IF r * Pow2(k) >= 1000 THEN k ELSE ShiftToUnit(r, k + 1)

\* binary exponent of the double nearest to q + r / 1000 (r > 0)
BinaryExponent(q, r) == IF q >= 1 THEN FloorLog2(q) ELSE 0 - ShiftToUnit(r, 0)

\* 1000 * 2^s * (x - t / 1000): round to nearest, ties to even
RoundingResidual(r, sh) ==
    LET x == ((r % 2000) * Pow2Mod(sh, 2000)) % 2000
        rem == x % 1000
    IN  IF rem < 500 THEN 0 - rem
        ELSE IF rem > 500 THEN 1000 - rem
        ELSE IF x \div 1000 = 0 THEN 0 - 500 ELSE 500

\* binary exponent of the doubles just below the integer r
ExponentBelow(r) == IF Pow2(FloorLog2(r)) = r THEN FloorLog2(r) - 1 ELSE FloorLog2(r)

\* int((time_in_seconds - int(time_in_seconds)) * 1000)
Milliseconds(t) ==
    LET q == t \div 1000
        r == t % 1000
        e == BinaryExponent(q, r)
        d == RoundingResidual(r, 52 - e)
        k == ExponentBelow(r) - e - 1
    IN  IF r = 0 THEN 0
        ELSE IF d >= 0 THEN r
        ELSE IF k < 0 THEN r - 1
        ELSE IF 0 - d > Pow2(k) THEN r - 1
        ELSE r

RECURSIVE Digits(_)
Digits(n) == IF n < 10 THEN <<n>> ELSE Append(Digits(n \div 10), n % 10)

\* f"{n:0w}": decimal digits, zero-padded on the left to at least w digits
RECURSIVE ZeroPad(_, _)
ZeroPad(ds, w) == IF Len(ds) >= w THEN ds ELSE ZeroPad(<<0>> \o ds, w)

\* the four fields of "HH:MM:SS,mmm", each as its digits
format_time(t) ==
    <<ZeroPad(Digits(t \div 3600000), 2),
      ZeroPad(Digits((t % 3600000) \div 60000), 2),
      ZeroPad(Digits((t % 60000) \div 1000), 2),
      ZeroPad(Digits(Milliseconds(t)), 3)>>

EntryNumber(k) == k + 1

ClipCutFromStartOfFile(row) == <<0, row.end_time>>

\* ffmpeg -i vocals.wav -ss start_time -to end_time
ClipCut(row) == <<row.start_time, row.end_time>>

SrtEntry(row, transcript) ==
    [num |-> EntryNumber(row.index),
     from |-> format_time(row.start_time),
     to |-> format_time(row.end_time),
     text |-> transcript]

-----------------------------------------------------------------------------
(* The polling threads of main.py as constructed: __init__ sets
   self.running = False; start() has not been called *)

ThreadConstructed ==
    /\ thread_pc = "constructed"
    /\ running = FALSE
    /\ stop_pc = "idle"
    /\ iterations_after_stop = 0
    /\ signal = None
    /\ signal_pending = FALSE

InitialVolume == 75
SliderDefaultMaximum == 99

\* MainWindow.__init__: is_playing = True, play_btn and the slider disabled,
\* slider_dragging = False, slider_sync_thread = None, currentMediaLocation =
\* None; the position slider has QSlider's default range
WindowConstructed ==
    /\ is_playing = TRUE
    /\ controls_enabled = FALSE
    /\ player_cmd = "none"
    /\ end_reached = FALSE
    /\ playing_media = None
    /\ currentMediaLocation = None
    /\ loading = 0
    /\ slider_value = 0
    /\ slider_maximum = SliderDefaultMaximum
    /\ slider_dragging = FALSE
    /\ slider_sync_thread = FALSE
    /\ thread_leaked = FALSE
    /\ last = "__init__"

\* horizontalSlider_2.setValue(75); audio_set_volume(75); storedVolume = 0
VolumeConstructed ==
    /\ volume_slider = InitialVolume
    /\ player_volume = InitialVolume
    /\ storedVolume = 0
    /\ volume_before_mute = 0

UiConstructed ==
    /\ thread_class = "SliderSyncThread"
    /\ ThreadConstructed
    /\ WindowConstructed
    /\ VolumeConstructed

-----------------------------------------------------------------------------
(* Initial state: a constructed VideoCaptioner, before process() *)

\* main.py constructs no VideoCaptioner
NoCaptioner ==
    /\ pc = "none"
    /\ files = {}
    /\ err = "none"
    /\ audio_len = 0
    /\ vad = <<>>
    /\ frame_duration = 30
    /\ min_duration = 500
    /\ i = 0
    /\ start = None
    /\ timestamps = <<>>
    /\ csv = to_csv(<<>>)
    /\ df = <<>>
    /\ idx = 0
    /\ srt = <<>>
    /\ dispatched = <<>>
    /\ failed = {}
    /\ clips = <<>>
    /\ cancel_requested = FALSE

Init ==
    /\ pc = "extract_audio"
    /\ files = {}
    /\ err = "none"
    /\ \/ \E n \in 0..MaxFrames, r \in {0, 1}, fd \in FrameDurations :
            /\ audio_len = n * frame_size(fd) + r
            /\ vad \in [1..n -> BOOLEAN]
            /\ frame_duration = fd
       \/ /\ audio_len = Len(ExamplePattern) * frame_size(1000)
          /\ vad = ExamplePattern
          /\ frame_duration = 1000
    /\ min_duration \in MinDurations
    /\ i = 0
    /\ start = None
    /\ timestamps = <<>>
    /\ csv = to_csv(<<>>)
    /\ df = <<>>
    /\ idx = 0
    /\ srt = <<>>
    /\ dispatched = <<>>
    /\ failed = {}
    /\ clips = <<>>
    /\ cancel_requested = FALSE
    /\ UiConstructed

-----------------------------------------------------------------------------
(* process(): the stages before the frame scan *)

ExtractAudioOkSkipsSeparate ==
    /\ pc = "extract_audio"
    /\ files' = files \cup {audio_path}
    /\ pc' = "detect_vocal_segments"
    /\ UNCHANGED <<err, audio_len, vad, frame_duration, min_duration, i, start,
                   timestamps, csv, df, idx, srt, dispatched, failed,
                   clips, cancel_requested,
                   ui_vars>>

\* subprocess.run(ffmpeg ..., check=True) returned 0
ExtractAudioOk ==
    /\ pc = "extract_audio"
    /\ files' = files \cup {audio_path}
    /\ pc' = "separate_audio"
    /\ UNCHANGED <<err, audio_len, vad, frame_duration, min_duration, i, start,
                   timestamps, csv, df, idx, srt, dispatched, failed,
                   clips, cancel_requested,
                   ui_vars>>

\* CalledProcessError: re-raised by extract_audio, caught by process().
\* ffmpeg may or may not have left an output file behind.
ExtractAudioFail ==
    /\ pc = "extract_audio"
    /\ files' \in {files, files \cup {audio_path}}
    /\ err' = "extract_audio"
    /\ pc' = "finally"
    /\ UNCHANGED <<audio_len, vad, frame_duration, min_duration, i, start,
                   timestamps, csv, df, idx, srt, dispatched, failed,
                   clips, cancel_requested,
                   ui_vars>>

SeparateAudioOk ==
    /\ pc = "separate_audio"
    /\ files' = files \cup {vocal_path}
    /\ pc' = "detect_vocal_segments"
    /\ UNCHANGED <<err, audio_len, vad, frame_duration, min_duration, i, start,
                   timestamps, csv, df, idx, srt, dispatched, failed,
                   clips, cancel_requested,
                   ui_vars>>

SeparateAudioFailContinues ==
    /\ pc = "separate_audio"
    /\ files' \in {files, files \cup {vocal_path}}
    /\ err' = "separate_audio"
    /\ pc' = "detect_vocal_segments"
    /\ UNCHANGED <<audio_len, vad, frame_duration, min_duration, i, start,
                   timestamps, csv, df, idx, srt, dispatched, failed,
                   clips, cancel_requested,
                   ui_vars>>

\* torchaudio.load, apply_model or torchaudio.save raised
SeparateAudioFail ==
    /\ pc = "separate_audio"
    /\ files' \in {files, files \cup {vocal_path}}
    /\ err' = "separate_audio"
    /\ pc' = "finally"
    /\ UNCHANGED <<audio_len, vad, frame_duration, min_duration, i, start,
                   timestamps, csv, df, idx, srt, dispatched, failed,
                   clips, cancel_requested,
                   ui_vars>>

LoadVocalsKeepsTimestamps ==
    /\ pc = "detect_vocal_segments"
    /\ i' = 0
    /\ start' = None
    /\ pc' = "scan"
    /\ UNCHANGED <<files, err, audio_len, vad, frame_duration, min_duration,
                   timestamps, csv, df, idx, srt, dispatched, failed,
                   clips, cancel_requested,
                   ui_vars>>

LoadVocalsKeepsIndex ==
    /\ pc = "detect_vocal_segments"
    /\ start' = None
    /\ timestamps' = <<>>
    /\ pc' = "scan"
    /\ UNCHANGED <<files, err, audio_len, vad, frame_duration, min_duration, i,
                   csv, df, idx, srt, dispatched, failed, clips, cancel_requested,
                   ui_vars>>

\* librosa.load, Vad(), framing; timestamps = [], start = None
LoadVocals ==
    /\ pc = "detect_vocal_segments"
    /\ i' = 0
    /\ start' = None
    /\ timestamps' = <<>>
    /\ pc' = "scan"
    /\ UNCHANGED <<files, err, audio_len, vad, frame_duration, min_duration,
                   csv, df, idx, srt, dispatched, failed,
                   clips, cancel_requested,
                   ui_vars>>

LoadVocalsFail ==
    /\ pc = "detect_vocal_segments"
    /\ err' = "detect_vocal_segments"
    /\ pc' = "finally"
    /\ UNCHANGED <<files, audio_len, vad, frame_duration, min_duration, i, start,
                   timestamps, csv, df, idx, srt, dispatched, failed,
                   clips, cancel_requested,
                   ui_vars>>

-----------------------------------------------------------------------------
(* detect_vocal_segments: one iteration of `for i, frame in enumerate(frames)` *)

ScanFrameShortFrameIsSilence ==
    /\ pc = "scan"
    /\ i < NumFrames(audio_len, frame_duration)
    /\ IF FrameLen(i, audio_len, frame_duration) < frame_size(frame_duration)
       THEN /\ start' = None
            /\ timestamps' =
                   IF start # None
                   THEN Append(timestamps, <<start, FrameTime(i, frame_duration)>>)
                   ELSE timestamps
       ELSE LET is_speech == vad[i + 1]
                time == FrameTime(i, frame_duration)
            IN  IF OpensInterval(is_speech, start)
                THEN /\ start' = time
                     /\ UNCHANGED timestamps
                ELSE IF ClosesInterval(is_speech, start)
                THEN /\ timestamps' =
                            IF KeepInterval(start, time, min_duration)
                            THEN Append(timestamps, <<start, time>>)
                            ELSE timestamps
                     /\ start' = StartAfterClose(start, time, min_duration)
                ELSE UNCHANGED <<start, timestamps>>
    /\ i' = i + 1
    /\ UNCHANGED <<pc, files, err, audio_len, vad, frame_duration, min_duration,
                   csv, df, idx, srt, dispatched, failed,
                   clips, cancel_requested,
                   ui_vars>>

ScanFrame ==
    /\ pc = "scan"
    /\ i < NumFrames(audio_len, frame_duration)
    /\ IF FrameLen(i, audio_len, frame_duration) < frame_size(frame_duration)
       THEN UNCHANGED <<start, timestamps>>
       ELSE LET is_speech == vad[i + 1]
                time == FrameTime(i, frame_duration)
            IN  IF OpensInterval(is_speech, start)
                THEN /\ start' = time
                     /\ UNCHANGED timestamps
                ELSE IF ClosesInterval(is_speech, start)
                THEN /\ timestamps' =
                            IF KeepInterval(start, time, min_duration)
                            THEN Append(timestamps, <<start, time>>)
                            ELSE timestamps
                     /\ start' = StartAfterClose(start, time, min_duration)
                ELSE UNCHANGED <<start, timestamps>>
    /\ i' = i + 1
    /\ UNCHANGED <<pc, files, err, audio_len, vad, frame_duration, min_duration,
                   csv, df, idx, srt, dispatched, failed,
                   clips, cancel_requested,
                   ui_vars>>

\* vad.is_speech raised (for instance on a frame length it does not support)
VadFail ==
    /\ pc = "scan"
    /\ i < NumFrames(audio_len, frame_duration)
    /\ FrameLen(i, audio_len, frame_duration) = frame_size(frame_duration)
    /\ err' = "detect_vocal_segments"
    /\ pc' = "finally"
    /\ UNCHANGED <<files, audio_len, vad, frame_duration, min_duration, i, start,
                   timestamps, csv, df, idx, srt, dispatched, failed,
                   clips, cancel_requested,
                   ui_vars>>

\* after the loop: DataFrame(timestamps).to_csv(vocal_csv)
WriteCsv ==
    /\ pc = "scan"
    /\ i = NumFrames(audio_len, frame_duration)
    /\ csv' = to_csv(timestamps)
    /\ files' = files \cup {vocal_csv}
    /\ pc' = "generate_srt"
    /\ UNCHANGED <<err, audio_len, vad, frame_duration, min_duration, i, start,
                   timestamps, df, idx, srt, dispatched, failed,
                   clips, cancel_requested,
                   ui_vars>>

-----------------------------------------------------------------------------
(* generate_srt *)

\* read_csv, checksum of the audio file, open(output_srt, "w")
OpenSrt ==
    /\ pc = "generate_srt"
    /\ df' = read_csv(csv)
    /\ files' = files \cup {output_srt}
    /\ srt' = <<>>
    /\ idx' = 0
    /\ pc' = "clip"
    /\ UNCHANGED <<err, audio_len, vad, frame_duration, min_duration, i, start,
                   timestamps, csv, dispatched, failed,
                   clips, cancel_requested,
                   ui_vars>>

ExtractClipOkWithoutWaiting ==
    /\ pc = "clip"
    /\ idx < Len(df)
    /\ dispatched' = Append(dispatched, df[idx + 1].index)
    /\ clips' = Append(clips, ClipCut(df[idx + 1]))
    /\ files' = files \cup {segment_audio(df[idx + 1].index)}
    /\ idx' = idx + 1
    /\ UNCHANGED <<pc, err, audio_len, vad, frame_duration, min_duration, i, start,
                   timestamps, csv, df, srt, failed, cancel_requested,
                   ui_vars>>

\* ffmpeg cut segment_<idx>.wav out of the vocals
ExtractClipOk ==
    /\ pc = "clip"
    /\ idx < Len(df)
    /\ dispatched' = Append(dispatched, df[idx + 1].index)
    /\ clips' = Append(clips, ClipCut(df[idx + 1]))
    /\ files' = files \cup {segment_audio(df[idx + 1].index)}
    /\ pc' = "transcribe"
    /\ UNCHANGED <<err, audio_len, vad, frame_duration, min_duration, i, start,
                   timestamps, csv, df, idx, srt, failed,
                   cancel_requested,
                   ui_vars>>

\* CalledProcessError leaves the with block and generate_srt, into process()
ExtractClipFail ==
    /\ pc = "clip"
    /\ idx < Len(df)
    /\ dispatched' = Append(dispatched, df[idx + 1].index)
    /\ clips' = Append(clips, ClipCut(df[idx + 1]))
    /\ files' \in {files, files \cup {segment_audio(df[idx + 1].index)}}
    /\ failed' = failed \cup {df[idx + 1].index}
    /\ err' = "generate_srt"
    /\ pc' = "finally"
    /\ UNCHANGED <<audio_len, vad, frame_duration, min_duration, i, start,
                   timestamps, csv, df, idx, srt,
                   cancel_requested,
                   ui_vars>>

TranscribeOkSkipsEmpty ==
    /\ pc = "transcribe"
    /\ \E transcript \in Texts :
            srt' = IF transcript = "" THEN srt
                   ELSE Append(srt, SrtEntry(df[idx + 1], transcript))
    /\ files' = files \ {segment_audio(df[idx + 1].index)}
    /\ idx' = idx + 1
    /\ pc' = "clip"
    /\ UNCHANGED <<err, audio_len, vad, frame_duration, min_duration, i, start,
                   timestamps, csv, df, dispatched, failed,
                   clips, cancel_requested,
                   ui_vars>>

\* transcribe_audio returned; os.remove(segment_audio); the three writes
TranscribeOk ==
    /\ pc = "transcribe"
    /\ \E transcript \in Texts :
            srt' = Append(srt, SrtEntry(df[idx + 1], transcript))
    /\ files' = files \ {segment_audio(df[idx + 1].index)}
    /\ idx' = idx + 1
    /\ pc' = "clip"
    /\ UNCHANGED <<err, audio_len, vad, frame_duration, min_duration, i, start,
                   timestamps, csv, df, dispatched, failed,
                   clips, cancel_requested,
                   ui_vars>>

\* transcribe_audio re-raised: os.remove and the writes are skipped
TranscribeFail ==
    /\ pc = "transcribe"
    /\ failed' = failed \cup {df[idx + 1].index}
    /\ err' = "generate_srt"
    /\ pc' = "finally"
    /\ UNCHANGED <<files, audio_len, vad, frame_duration, min_duration, i, start,
                   timestamps, csv, df, idx, srt, dispatched,
                   clips, cancel_requested,
                   ui_vars>>

SrtDoneWaitsForMore ==
    /\ pc = "clip"
    /\ idx > Len(df)
    /\ pc' = "finally"
    /\ UNCHANGED <<files, err, audio_len, vad, frame_duration, min_duration, i,
                   start, timestamps, csv, df, idx, srt, dispatched, failed,
                   clips, cancel_requested,
                   ui_vars>>

\* the for loop is exhausted; the file is closed; generate_srt returns
SrtDone ==
    /\ pc = "clip"
    /\ idx = Len(df)
    /\ pc' = "finally"
    /\ UNCHANGED <<files, err, audio_len, vad, frame_duration, min_duration, i,
                   start, timestamps, csv, df, idx, srt, dispatched, failed,
                   clips, cancel_requested,
                   ui_vars>>

-----------------------------------------------------------------------------
(* process(): the finally block *)

Cleanup ==
    /\ pc = "finally"
    /\ files' = files \ {audio_path, vocal_path, vocal_csv}
    /\ pc' = "returned"
    /\ UNCHANGED <<err, audio_len, vad, frame_duration, min_duration, i, start,
                   timestamps, csv, df, idx, srt, dispatched, failed,
                   clips, cancel_requested,
                   ui_vars>>

Next ==
    \/ ExtractAudioOk
    \/ ExtractAudioFail
    \/ SeparateAudioOk
    \/ SeparateAudioFail
    \/ LoadVocals
    \/ LoadVocalsFail
    \/ ScanFrame
    \/ VadFail
    \/ WriteCsv
    \/ OpenSrt
    \/ ExtractClipOk
    \/ ExtractClipFail
    \/ TranscribeOk
    \/ TranscribeFail
    \/ SrtDone
    \/ Cleanup

Spec == Init /\ [][Next]_vars

\* every call that process() makes returns or raises in the end
SpecLive == Init /\ [][Next]_vars /\ WF_vars(Next)

\* the steps that do not wait for ffmpeg's clip extraction or for the
\* transcriber: subprocess.run and whisper are called without a timeout, so
\* nothing makes a segment's call come back
StepsOtherThanSegmentCalls ==
    \/ ExtractAudioOk
    \/ ExtractAudioFail
    \/ SeparateAudioOk
    \/ SeparateAudioFail
    \/ LoadVocals
    \/ LoadVocalsFail
    \/ ScanFrame
    \/ VadFail
    \/ WriteCsv
    \/ OpenSrt
    \/ SrtDone
    \/ Cleanup

SpecHang == Init /\ [][Next]_vars /\ WF_vars(StepsOtherThanSegmentCalls)

-----------------------------------------------------------------------------
(* A cancellation request from the caller.  No statement of process() or of
   the stages reads it. *)

RequestCancel ==
    /\ pc \notin {"finally", "returned"}
    /\ ~cancel_requested
    /\ cancel_requested' = TRUE
    /\ UNCHANGED <<pc, files, err, audio_len, vad, frame_duration, min_duration,
                   i, start, timestamps, csv, df, idx, srt, dispatched, failed,
                   clips,
                   ui_vars>>

NextCancel ==
    \/ Next
    \/ RequestCancel

SpecCancel == Init /\ [][NextCancel]_vars

-----------------------------------------------------------------------------
(* A second VideoCaptioner running process() on another video in the same
   directory: its detect_vocal_segments writes the same vocal_timestamps.csv *)

OtherRunLists == {<<>>, <<<<0, 1000>>>>}

OtherRunWriteCsv ==
    /\ pc \notin {"finally", "returned"}
    /\ \E l \in OtherRunLists : csv' = to_csv(l)
    /\ files' = files \cup {vocal_csv}
    /\ UNCHANGED <<pc, err, audio_len, vad, frame_duration, min_duration, i,
                   start, timestamps, df, idx, srt, dispatched, failed,
                   clips, cancel_requested,
                   ui_vars>>

NextTwoRuns ==
    \/ Next
    \/ OtherRunWriteCsv

SpecTwoRuns == Init /\ [][NextTwoRuns]_vars

-----------------------------------------------------------------------------
(* detect_vocal_segments called again and again on one VideoCaptioner *)

InitMerger ==
    /\ pc = "detect_vocal_segments"
    /\ files = {audio_path, vocal_path}
    /\ err = "none"
    /\ \/ \E n \in 0..MaxFrames, r \in {0, 1}, fd \in FrameDurations :
            /\ audio_len = n * frame_size(fd) + r
            /\ vad \in [1..n -> BOOLEAN]
            /\ frame_duration = fd
       \/ /\ audio_len = Len(ExamplePattern) * frame_size(1000)
          /\ vad = ExamplePattern
          /\ frame_duration = 1000
    /\ min_duration \in MinDurations
    /\ i = 0
    /\ start = None
    /\ timestamps = <<>>
    /\ csv = to_csv(<<>>)
    /\ df = <<>>
    /\ idx = 0
    /\ srt = <<>>
    /\ dispatched = <<>>
    /\ failed = {}
    /\ clips = <<>>
    /\ cancel_requested = FALSE
    /\ UiConstructed

\* a further call on the same vocals with the same parameters; the locals of
\* the previous call and the csv it wrote are still there
DetectAgain ==
    /\ pc = "generate_srt"
    /\ pc' = "detect_vocal_segments"
    /\ UNCHANGED <<files, err, audio_len, vad, frame_duration, min_duration, i,
                   start, timestamps, csv, df, idx, srt, dispatched, failed,
                   clips, cancel_requested,
                   ui_vars>>

\* a further call after other vocals replaced vocals.wav and the previous csv
\* was removed (the finally block of process())
DetectOther ==
    /\ pc = "generate_srt"
    /\ \E n \in 0..MaxFrames, r \in {0, 1}, fd \in FrameDurations :
            /\ audio_len' = n * frame_size(fd) + r
            /\ vad' \in [1..n -> BOOLEAN]
            /\ frame_duration' = fd
    /\ min_duration' \in MinDurations
    /\ files' = files \ {vocal_csv}
    /\ csv' = to_csv(<<>>)
    /\ pc' = "detect_vocal_segments"
    /\ UNCHANGED <<err, i, start, timestamps, df, idx, srt, dispatched, failed,
                   clips, cancel_requested,
                   ui_vars>>

NextMerger ==
    \/ LoadVocals
    \/ ScanFrame
    \/ WriteCsv
    \/ DetectAgain
    \/ DetectOther

SpecMerger == InitMerger /\ [][NextMerger]_vars

-----------------------------------------------------------------------------
(* generate_srt called on a given interval list *)

TimePairs == {p \in TimeInputs \X TimeInputs : p[1] < p[2]}

\* one interval, or two adjacent ones
IntervalLists ==
    { <<p>> : p \in TimePairs }
    \cup
    { <<p, q>> : p \in TimePairs, q \in {x \in TimePairs : x[2] \in {3662999, 360000000}} }

InitSrt ==
    /\ pc = "generate_srt"
    /\ files = {audio_path, vocal_path, vocal_csv}
    /\ err = "none"
    /\ audio_len = 0
    /\ vad = <<>>
    /\ frame_duration = 30
    /\ min_duration = 500
    /\ i = 0
    /\ start = None
    /\ timestamps \in {l \in IntervalLists : Len(l) = 2 => l[1][2] = l[2][1]}
    /\ csv = to_csv(timestamps)
    /\ df = <<>>
    /\ idx = 0
    /\ srt = <<>>
    /\ dispatched = <<>>
    /\ failed = {}
    /\ clips = <<>>
    /\ cancel_requested = FALSE
    /\ UiConstructed

NextSrt ==
    \/ OpenSrt
    \/ ExtractClipOk
    \/ ExtractClipFail
    \/ TranscribeOk
    \/ TranscribeFail
    \/ SrtDone

SpecSrt == InitSrt /\ [][NextSrt]_vars

-----------------------------------------------------------------------------
(* main.py: a polling thread, from start() to the return of stop().
   run() is `self.running = True; while self.running: poll, emit, msleep`;
   stop() is `self.running = False; [self.quit();] self.wait(...)`.  quit()
   ends an event loop and run() starts none.  The thread and the caller of
   stop() interleave statement by statement. *)

ThreadClasses == {"SliderSyncThread", "PlaybackTimeThread", "VideoPlayerThread"}

\* media_player.get_time() in seconds; negative while nothing is loaded
PolledTimes == {-1, 0, 1}

MaxIterationsAfterStop == 2

\* QThread.start(): the thread exists, run() has not executed a statement
ThreadStart ==
    /\ thread_pc = "constructed"
    /\ thread_pc' = "started"
    /\ UNCHANGED <<thread_class, running, stop_pc, iterations_after_stop,
                   signal, signal_pending,
                   caption_vars, window_vars, volume_vars>>

\* run(): self.running = True
RunSetsRunning ==
    /\ thread_pc = "started"
    /\ running' = TRUE
    /\ thread_pc' = "while"
    /\ UNCHANGED <<thread_class, stop_pc, iterations_after_stop, signal,
                   signal_pending,
                   caption_vars, window_vars, volume_vars>>

\* while self.running: the test passes
LoopEnter ==
    /\ thread_pc = "while"
    /\ running
    /\ thread_pc' = "body"
    /\ iterations_after_stop' =
            IF stop_pc = "idle" \/ iterations_after_stop = MaxIterationsAfterStop
            THEN iterations_after_stop
            ELSE iterations_after_stop + 1
    /\ UNCHANGED <<thread_class, running, stop_pc, signal, signal_pending,
                   caption_vars, window_vars, volume_vars>>

\* while self.running: the test fails and run() returns
LoopExit ==
    /\ thread_pc = "while"
    /\ ~running
    /\ thread_pc' = "finished"
    /\ UNCHANGED <<thread_class, running, stop_pc, iterations_after_stop,
                   signal, signal_pending,
                   caption_vars, window_vars, volume_vars>>

\* what one iteration emits for the polled time: SliderSyncThread always,
\* the other two only `if current_time >= 0`
Emits(class, current_time) == class = "SliderSyncThread" \/ current_time >= 0

EmittedValue(class, current_time, previous) ==
    IF Emits(class, current_time) THEN current_time ELSE previous

\* the body of the loop up to msleep
PollAndEmit ==
    /\ thread_pc = "body"
    /\ \E current_time \in PolledTimes :
            /\ signal' = EmittedValue(thread_class, current_time, signal)
            /\ signal_pending' =
                    (signal_pending \/ Emits(thread_class, current_time))
    /\ thread_pc' = "msleep"
    /\ UNCHANGED <<thread_class, running, stop_pc, iterations_after_stop,
                   caption_vars, window_vars, volume_vars>>

\* msleep returns
Wake ==
    /\ thread_pc = "msleep"
    /\ thread_pc' = "while"
    /\ UNCHANGED <<thread_class, running, stop_pc, iterations_after_stop,
                   signal, signal_pending,
                   caption_vars, window_vars, volume_vars>>

\* stop(): self.running = False; the caller goes on to wait
StopSetsRunningFalse ==
    /\ stop_pc = "idle"
    /\ thread_pc # "constructed"
    /\ running' = FALSE
    /\ stop_pc' = "wait"
    /\ UNCHANGED <<thread_class, thread_pc, iterations_after_stop, signal,
                   signal_pending,
                   caption_vars, window_vars, volume_vars>>

\* wait() returns when run() has returned
WaitReturns ==
    /\ stop_pc = "wait"
    /\ thread_pc = "finished"
    /\ stop_pc' = "returned"
    /\ UNCHANGED <<thread_class, thread_pc, running,
                   iterations_after_stop, signal, signal_pending,
                   caption_vars, window_vars, volume_vars>>

\* VideoPlayerThread.stop() waits with self.wait(500): the wait gives up
\* after 500 ms while the thread is still alive (its msleep is 1000 ms)
WaitTimesOut ==
    /\ thread_class = "VideoPlayerThread"
    /\ stop_pc = "wait"
    /\ thread_pc # "finished"
    /\ stop_pc' = "returned"
    /\ UNCHANGED <<thread_class, thread_pc, running,
                   iterations_after_stop, signal, signal_pending,
                   caption_vars, window_vars, volume_vars>>

InitThread ==
    /\ NoCaptioner
    /\ thread_class \in ThreadClasses
    /\ ThreadConstructed
    /\ WindowConstructed
    /\ VolumeConstructed

NextThread ==
    \/ ThreadStart
    \/ RunSetsRunning
    \/ LoopEnter
    \/ LoopExit
    \/ PollAndEmit
    \/ Wake
    \/ StopSetsRunningFalse
    \/ WaitReturns
    \/ WaitTimesOut

SpecThread == InitThread /\ [][NextThread]_vars

-----------------------------------------------------------------------------
(* main.py: MainWindow.  Each handler runs to its end on the GUI thread;
   signals of the threads arrive as queued calls of their slots.  The one
   place where a handler waits is SliderSyncThread.stop() inside the
   mouse-release branch of eventFilter: until wait() returns the GUI thread
   handles nothing else. *)

MediaFiles == {1, 2}

\* media_player.get_length() // 1000 of a file, seconds
FileLength(f) == f

\* media_player.get_time() // 1000 while media is playing, seconds
PlayTimes == 0..2

\* where on the slider a mouse event lands: x / width in halves
DragFractions == {0, 1, 2}

MaxLoading == 1

GuiReady == stop_pc # "wait"

\* QSlider keeps its value within [minimum, maximum] = [0, maximum]
Bound(v, maximum) == IF v > maximum THEN maximum ELSE IF v < 0 THEN 0 ELSE v

\* get_length() // 1000 is the length of the media being played, and not
\* positive while nothing plays or the length is not known yet
TotalLengths ==
    IF playing_media # None /\ player_cmd \in {"play", "pause"}
    THEN {0, FileLength(playing_media)}
    ELSE {0}

\* load_media(file_name): start a FileLoaderThread, enablePlay()
load_media ==
    /\ loading' = loading + 1
    /\ controls_enabled' = TRUE

open_file ==
    /\ GuiReady
    /\ loading < MaxLoading
    /\ \E file_name \in MediaFiles :
            /\ load_media
            /\ currentMediaLocation' = file_name
    /\ last' = "open_file"
    /\ UNCHANGED <<is_playing, player_cmd, end_reached, playing_media,
                   slider_value, slider_maximum, slider_dragging,
                   slider_sync_thread, thread_leaked,
                   caption_vars, thread_vars, volume_vars>>

dropEvent ==
    /\ GuiReady
    /\ loading < MaxLoading
    /\ \E file_path \in MediaFiles :
            /\ load_media
            /\ currentMediaLocation' = file_path
    /\ last' = "dropEvent"
    /\ UNCHANGED <<is_playing, player_cmd, end_reached, playing_media,
                   slider_value, slider_maximum, slider_dragging,
                   slider_sync_thread, thread_leaked,
                   caption_vars, thread_vars, volume_vars>>

\* FileLoaderThread.run set the media; the slot resets the slider and plays
on_file_loaded ==
    /\ GuiReady
    /\ loading > 0
    /\ loading' = loading - 1
    /\ slider_value' = 0
    /\ slider_maximum' = 0
    /\ player_cmd' = "play"
    /\ end_reached' = FALSE
    /\ playing_media' = currentMediaLocation
    /\ last' = "on_file_loaded"
    /\ UNCHANGED <<is_playing, controls_enabled, currentMediaLocation,
                   slider_dragging, slider_sync_thread, thread_leaked,
                   caption_vars, thread_vars, volume_vars>>

\* play_btn.clicked
playORpause ==
    /\ GuiReady
    /\ controls_enabled
    /\ player_cmd' = IF is_playing THEN "pause" ELSE "play"
    /\ end_reached' = (end_reached /\ is_playing)
    /\ is_playing' = ~is_playing
    /\ last' = "playORpause"
    /\ UNCHANGED <<controls_enabled, playing_media, currentMediaLocation,
                   loading, slider_value, slider_maximum, slider_dragging,
                   slider_sync_thread, thread_leaked,
                   caption_vars, thread_vars, volume_vars>>

\* MediaPlayerEndReached: replay the current file, or disablePlay()
on_video_end ==
    /\ player_cmd = "play"
    /\ ~end_reached
    /\ loading < MaxLoading
    /\ end_reached' = TRUE
    /\ IF currentMediaLocation # None
       THEN /\ load_media
            /\ UNCHANGED player_cmd
       ELSE /\ controls_enabled' = FALSE
            /\ player_cmd' = "stop"
            /\ UNCHANGED loading
    /\ last' = "on_video_end"
    /\ UNCHANGED <<is_playing, playing_media, currentMediaLocation,
                   slider_value, slider_maximum, slider_dragging,
                   slider_sync_thread, thread_leaked,
                   caption_vars, thread_vars, volume_vars>>

\* setMaximum(total_length) keeps the value within the new range
SliderAfterTotalLength(total_length) ==
    IF total_length > 0
    THEN <<Bound(slider_value, total_length), total_length>>
    ELSE <<slider_value, slider_maximum>>

\* VideoPlayerThread.update_length_signal, emitted `if total_length > 0`
update_total_length ==
    /\ GuiReady
    /\ \E total_length \in TotalLengths :
            /\ total_length > 0
            /\ slider_value' = SliderAfterTotalLength(total_length)[1]
            /\ slider_maximum' = SliderAfterTotalLength(total_length)[2]
    /\ last' = "update_total_length"
    /\ UNCHANGED <<is_playing, controls_enabled, player_cmd, end_reached,
                   playing_media, currentMediaLocation, loading,
                   slider_dragging, slider_sync_thread, thread_leaked,
                   caption_vars, thread_vars, volume_vars>>

\* `if not self.slider_dragging and self.is_playing`
UpdatesTime(dragging, playing) == ~dragging /\ playing

\* VideoPlayerThread.update_time_signal, emitted `if current_time >= 0`
update_time ==
    /\ GuiReady
    /\ player_cmd \in {"play", "pause"}
    /\ \E current_time \in PlayTimes :
            slider_value' =
                IF UpdatesTime(slider_dragging, is_playing)
                THEN Bound(current_time, slider_maximum)
                ELSE slider_value
    /\ last' = "update_time"
    /\ UNCHANGED <<is_playing, controls_enabled, player_cmd, end_reached,
                   playing_media, currentMediaLocation, loading,
                   slider_maximum, slider_dragging, slider_sync_thread,
                   thread_leaked,
                   caption_vars, thread_vars, volume_vars>>

\* PlaybackTimeThread.playback_time_signal: update_total_length, update_time
force_update ==
    /\ GuiReady
    /\ player_cmd \in {"play", "pause"}
    /\ \E seconds \in PlayTimes, total_length \in TotalLengths :
            /\ slider_maximum' = SliderAfterTotalLength(total_length)[2]
            /\ slider_value' =
                IF UpdatesTime(slider_dragging, is_playing)
                THEN Bound(seconds, SliderAfterTotalLength(total_length)[2])
                ELSE SliderAfterTotalLength(total_length)[1]
    /\ last' = "force_update"
    /\ UNCHANGED <<is_playing, controls_enabled, player_cmd, end_reached,
                   playing_media, currentMediaLocation, loading,
                   slider_dragging, slider_sync_thread, thread_leaked,
                   caption_vars, thread_vars, volume_vars>>

\* SliderSyncThread.sync_signal: `if not self.slider_dragging: setValue`
update_slider_position ==
    /\ GuiReady
    /\ signal_pending
    /\ signal_pending' \in BOOLEAN
    /\ slider_value' =
            IF ~slider_dragging
            THEN Bound(signal, slider_maximum)
            ELSE slider_value
    /\ last' = "update_slider_position"
    /\ UNCHANGED <<thread_class, thread_pc, running, stop_pc,
                   iterations_after_stop, signal, is_playing,
                   controls_enabled, player_cmd, end_reached,
                   playing_media, currentMediaLocation, loading,
                   slider_maximum, slider_dragging, slider_sync_thread,
                   thread_leaked,
                   caption_vars, volume_vars>>

\* handle_slider_drag: nothing when the cursor is more than 50 px off the
\* slider, else setValue of the fraction of the range under the cursor
DraggedValues ==
    {slider_value} \cup
    {Bound((fr * slider_maximum) \div 2, slider_maximum) : fr \in DragFractions}

\* a thread that has been started and whose run() has not returned
ThreadAlive == thread_pc \in {"started", "while", "body", "msleep"}

\* eventFilter, MouseButtonPress within the radius of the handle
MouseButtonPressOnHandle ==
    /\ GuiReady
    /\ controls_enabled
    /\ slider_dragging' = TRUE
    /\ slider_value' \in DraggedValues
    /\ IF ~slider_sync_thread
       THEN /\ slider_sync_thread' = TRUE
            /\ thread_leaked' = (thread_leaked \/ ThreadAlive)
            /\ thread_pc' = "started"
            /\ running' = FALSE
            /\ stop_pc' = "idle"
            /\ iterations_after_stop' = 0
       ELSE UNCHANGED <<slider_sync_thread, thread_leaked, thread_pc,
                        running, stop_pc, iterations_after_stop>>
    /\ last' = "MouseButtonPress"
    /\ UNCHANGED <<thread_class, signal, signal_pending, is_playing,
                   controls_enabled, player_cmd, end_reached,
                   playing_media, currentMediaLocation, loading,
                   slider_maximum,
                   caption_vars, volume_vars>>

\* eventFilter, MouseButtonPress elsewhere on the slider: handle_slider_click
\* divides by maximum() - minimum() and raises on an empty range; otherwise
\* it jumps to the position clicked unless the click is on the handle
MouseButtonPressOffHandle ==
    /\ GuiReady
    /\ controls_enabled
    /\ slider_maximum > 0
    /\ slider_value' \in DraggedValues
    /\ slider_dragging' = FALSE
    /\ last' = "MouseButtonPress"
    /\ UNCHANGED <<is_playing, controls_enabled, player_cmd, end_reached,
                   playing_media, currentMediaLocation, loading,
                   slider_maximum, slider_sync_thread, thread_leaked,
                   caption_vars, thread_vars, volume_vars>>

\* eventFilter, MouseMove `and self.slider_dragging`
MouseMove ==
    /\ GuiReady
    /\ controls_enabled
    /\ slider_dragging
    /\ slider_value' \in DraggedValues
    /\ last' = "MouseMove"
    /\ UNCHANGED <<is_playing, controls_enabled, player_cmd, end_reached,
                   playing_media, currentMediaLocation, loading,
                   slider_maximum, slider_dragging, slider_sync_thread,
                   thread_leaked,
                   caption_vars, thread_vars, volume_vars>>

\* eventFilter, MouseButtonRelease up to the wait() inside stop()
MouseButtonRelease ==
    /\ GuiReady
    /\ controls_enabled
    /\ slider_dragging' = FALSE
    /\ IF slider_sync_thread
       THEN /\ running' = FALSE
            /\ stop_pc' = "wait"
       ELSE UNCHANGED <<running, stop_pc>>
    /\ last' = "MouseButtonRelease"
    /\ UNCHANGED <<thread_class, thread_pc, iterations_after_stop, signal,
                   signal_pending, is_playing, controls_enabled,
                   player_cmd, end_reached, playing_media,
                   currentMediaLocation, loading, slider_value,
                   slider_maximum, slider_sync_thread, thread_leaked,
                   caption_vars, volume_vars>>

\* eventFilter, MouseButtonRelease from the return of wait():
\* self.slider_sync_thread = None, set_time
ReleaseReturns ==
    /\ stop_pc = "wait"
    /\ thread_pc = "finished"
    /\ stop_pc' = "returned"
    /\ slider_sync_thread' = FALSE
    /\ last' = "MouseButtonRelease"
    /\ UNCHANGED <<thread_class, thread_pc, running,
                   iterations_after_stop, signal, signal_pending,
                   is_playing, controls_enabled, player_cmd, end_reached,
                   playing_media, currentMediaLocation, loading,
                   slider_value, slider_maximum, slider_dragging,
                   thread_leaked,
                   caption_vars, volume_vars>>

InitWindow ==
    /\ NoCaptioner
    /\ UiConstructed

NextWindow ==
    \/ open_file
    \/ dropEvent
    \/ on_file_loaded
    \/ playORpause
    \/ on_video_end
    \/ update_total_length
    \/ update_time
    \/ force_update
    \/ update_slider_position
    \/ MouseButtonPressOnHandle
    \/ MouseButtonPressOffHandle
    \/ MouseMove
    \/ MouseButtonRelease
    \/ ReleaseReturns
    \/ RunSetsRunning
    \/ LoopEnter
    \/ LoopExit
    \/ PollAndEmit
    \/ Wake

SpecWindow == InitWindow /\ [][NextWindow]_vars

-----------------------------------------------------------------------------
(* main.py: MainWindow, the volume slider and the sound button.
   horizontalSlider_2.valueChanged is connected to update_volume, so every
   setValue that changes the value ends with audio_set_volume(value()). *)

\* positions the user moves the volume slider to
VolumeLevels == {0, 1, 10, 30, 49, 50, 60, 75, 90, 99}

\* horizontalSlider_2.setValue(v): the value QSlider keeps
VolumeSliderValue(v) == Bound(v, SliderDefaultMaximum)

\* the user moves the volume slider: valueChanged, update_volume
update_volume ==
    /\ GuiReady
    /\ \E volume \in VolumeLevels :
            /\ volume_slider' = VolumeSliderValue(volume)
            /\ player_volume' = VolumeSliderValue(volume)
    /\ last' = "update_volume"
    /\ UNCHANGED <<is_playing, controls_enabled, player_cmd, end_reached,
                   playing_media, currentMediaLocation, loading,
                   slider_value, slider_maximum, slider_dragging,
                   slider_sync_thread, thread_leaked, storedVolume,
                   volume_before_mute,
                   caption_vars, thread_vars>>

\* sound_btn.clicked without `self.storedVolume = currentVolume`
clickedSoundbtnForgetsVolume ==
    /\ GuiReady
    /\ IF volume_slider > 0
       THEN /\ volume_before_mute' = volume_slider
            /\ volume_slider' = VolumeSliderValue(0)
            /\ player_volume' = VolumeSliderValue(0)
            /\ UNCHANGED storedVolume
       ELSE /\ IF storedVolume > 0
               THEN /\ volume_slider' = VolumeSliderValue(storedVolume)
                    /\ player_volume' = VolumeSliderValue(storedVolume)
               ELSE UNCHANGED <<volume_slider, player_volume>>
            /\ UNCHANGED <<storedVolume, volume_before_mute>>
    /\ last' = "clickedSoundbtn"
    /\ UNCHANGED <<is_playing, controls_enabled, player_cmd, end_reached,
                   playing_media, currentMediaLocation, loading,
                   slider_value, slider_maximum, slider_dragging,
                   slider_sync_thread, thread_leaked,
                   caption_vars, thread_vars>>

\* sound_btn.clicked
clickedSoundbtn ==
    /\ GuiReady
    /\ IF volume_slider > 0
       THEN /\ storedVolume' = volume_slider
            /\ volume_before_mute' = volume_slider
            /\ volume_slider' = VolumeSliderValue(0)
            /\ player_volume' = VolumeSliderValue(0)
       ELSE /\ IF storedVolume > 0
               THEN /\ volume_slider' = VolumeSliderValue(storedVolume)
                    /\ player_volume' = VolumeSliderValue(storedVolume)
               ELSE UNCHANGED <<volume_slider, player_volume>>
            /\ UNCHANGED <<storedVolume, volume_before_mute>>
    /\ last' = "clickedSoundbtn"
    /\ UNCHANGED <<is_playing, controls_enabled, player_cmd, end_reached,
                   playing_media, currentMediaLocation, loading,
                   slider_value, slider_maximum, slider_dragging,
                   slider_sync_thread, thread_leaked,
                   caption_vars, thread_vars>>

NextVolume ==
    \/ update_volume
    \/ clickedSoundbtn

SpecVolume == InitWindow /\ [][NextVolume]_vars

-----------------------------------------------------------------------------
(* Vocabulary of the properties: maximal runs of speech frames *)

\* frames a..b (counted from 1) are a maximal run of speech frames
IsRun(a, b) ==
    /\ 1 <= a /\ a <= b /\ b <= Len(vad)
    /\ \A j \in a..b : vad[j]
    /\ (a = 1 \/ ~vad[a - 1])
    /\ (b = Len(vad) \/ ~vad[b + 1])

\* the interval of the run a..b: from the time of its first frame to the time
\* of the first frame after it
RunInterval(a, b) == <<(a - 1) * frame_duration, b * frame_duration>>

Emitted(iv) == \E k \in 1..Len(timestamps) : timestamps[k] = iv

ScanFinished == pc \in {"generate_srt", "clip", "transcribe"}

NoSpeech == \A j \in 1..Len(vad) : ~vad[j]

-----------------------------------------------------------------------------
(* The segment loop of generate_srt *)

\* C1: the k-th entry written to the subtitle file is the entry of the k-th
\* interval of the interval list generate_srt was given, and clips are cut in
\* that same order.
C1_EntriesInIntervalOrder ==
    /\ Len(srt) <= Len(csv.rows)
    /\ \A k \in 1..Len(srt) :
        /\ srt[k].num = k
        /\ srt[k].from = format_time(csv.rows[k][1])
        /\ srt[k].to = format_time(csv.rows[k][2])
    /\ \A k \in 1..Len(dispatched) : dispatched[k] = k - 1

C1_Witness ==
    /\ pc = "returned"
    /\ Len(srt) = 2
    /\ csv.rows[1] # csv.rows[2]

\* C2: when exactly one segment failed, the finished run has an entry for
\* every interval, and the entry of the failed segment has an empty caption.
C2_OneFailureKeepsAllEntries ==
    (pc = "returned" /\ Cardinality(failed) = 1) =>
        /\ Len(srt) = Len(df)
        /\ \A k \in failed : srt[k + 1].text = ""

\* C3: in a finished run that reached generate_srt's loop, every interval
\* was dispatched to clip extraction exactly once, whichever segments failed.
C3_EveryIntervalDispatchedOnce ==
    (pc = "returned" /\ output_srt \in files) =>
        \A k \in 0..(Len(df) - 1) :
            Cardinality({j \in 1..Len(dispatched) : dispatched[j] = k}) = 1

-----------------------------------------------------------------------------
(* The frame scan of detect_vocal_segments *)

\* C4: the interval list is strictly increasing in start time and consecutive
\* intervals do not overlap.
C4_SortedNonOverlapping ==
    \A k \in 1..(Len(timestamps) - 1) :
        /\ timestamps[k][1] < timestamps[k + 1][1]
        /\ timestamps[k][2] <= timestamps[k + 1][1]

C4_Witness ==
    /\ ScanFinished
    /\ Len(timestamps) >= 2
    /\ min_duration > 0

\* C5: no interval of the list is shorter than min_duration.
C5_NoShortInterval ==
    \A k \in 1..Len(timestamps) :
        timestamps[k][2] - timestamps[k][1] >= min_duration

\* a short run was scanned and dropped, a long one was kept
C5_Witness ==
    /\ ScanFinished
    /\ Len(timestamps) >= 1
    /\ \E a, b \in 1..Len(vad) :
        /\ IsRun(a, b)
        /\ b < Len(vad)
        /\ (b - a + 1) * frame_duration < min_duration

\* C6: once the scan has finished, every maximal run of speech frames whose
\* duration is at least min_duration is in the interval list.
C6_EveryLongRunEmitted ==
    ScanFinished =>
        \A a, b \in 1..Len(vad) :
            (IsRun(a, b) /\ (b - a + 1) * frame_duration >= min_duration)
                => Emitted(RunInterval(a, b))

\* C7: when the last classified frame is speech, the open interval is closed
\* at the end of that frame and is in the list if it is long enough.
C7_TrailingRunClosed ==
    (ScanFinished /\ Len(vad) > 0 /\ vad[Len(vad)]) =>
        \A a \in 1..Len(vad) :
            (IsRun(a, Len(vad))
             /\ (Len(vad) - a + 1) * frame_duration >= min_duration)
                => Emitted(RunInterval(a, Len(vad)))

\* C8: every interval of the list is one maximal run of speech frames, from
\* the time of its first frame to the time of the non-speech frame that ends
\* it; the ten-frame example yields (0,2),(4,7) seconds.
C8_IntervalIsOneRun ==
    /\ \A k \in 1..Len(timestamps) :
        \E a, b \in 1..Len(vad) :
            /\ IsRun(a, b)
            /\ b < Len(vad)
            /\ timestamps[k] = RunInterval(a, b)
    /\ (ScanFinished /\ vad = ExamplePattern
            /\ frame_duration = 1000 /\ min_duration = 500)
        => timestamps = <<<<0, 2000>>, <<4000, 7000>>>>

C8_Witness ==
    /\ ScanFinished
    /\ vad = ExamplePattern
    /\ frame_duration = 1000
    /\ min_duration = 500
    /\ Len(timestamps) = 2

\* C9: no interval reaches across a non-speech frame, so runs on either side
\* of a single non-speech frame stay separate and a dropped run lends its
\* start to no later interval.
C9_NoMergeAcrossGap ==
    \A k \in 1..Len(timestamps), j \in 1..Len(vad) :
        ~vad[j] =>
            ~(/\ timestamps[k][1] <= (j - 1) * frame_duration
              /\ (j - 1) * frame_duration < timestamps[k][2])

\* a dropped one-frame run, one non-speech frame, then a kept two-frame run
C9_Witness ==
    /\ ScanFinished
    /\ vad = <<TRUE, FALSE, TRUE, TRUE, FALSE>>
    /\ frame_duration = 30
    /\ min_duration = 60
    /\ timestamps = <<<<60, 120>>>>

\* C10: with zero frames, or with no speech frame, the interval list is
\* empty, generate_srt raises nothing, and a run no stage of which failed
\* returns with a subtitle file of zero entries.
C10_EmptyInputCompletes ==
    NoSpeech =>
        /\ timestamps = <<>>
        /\ csv.rows = <<>>
        /\ srt = <<>>
        /\ pc # "transcribe"
        /\ err # "generate_srt"
        /\ (pc = "returned" /\ err = "none") => output_srt \in files

C10_Witness ==
    /\ pc = "returned"
    /\ audio_len = 0
    /\ err = "none"
    /\ output_srt \in files
    /\ srt = <<>>

-----------------------------------------------------------------------------
(* Reruns of the merger *)

\* C11: a call of detect_vocal_segments that follows a call on the same
\* vocals with the same parameters writes the same interval list, whatever
\* was processed before that.
C11_RerunSameIntervals ==
    [][(pc = "scan" /\ pc' = "generate_srt" /\ vocal_csv \in files) => csv' = csv]_vars

\* a rerun, after other vocals, has scanned to an open trailing interval
C11_Witness ==
    /\ pc = "scan"
    /\ vocal_csv \in files
    /\ i = NumFrames(audio_len, frame_duration)
    /\ Len(timestamps) >= 1
    /\ start # None
    /\ csv.rows = timestamps

-----------------------------------------------------------------------------
(* process(): stages, failure and cleanup *)

Intermediates ==
    {audio_path, vocal_path, vocal_csv} \cup {segment_audio(k) : k \in 0..7}

\* C12: when process() has returned, no intermediate file is left: neither
\* the decoded audio, the vocals, the interval list, nor a segment file.
C12_NoArtifactAfterReturn ==
    pc = "returned" => files \cap Intermediates = {}

StageRank(p) ==
    CASE p = "extract_audio" -> 1
      [] p = "separate_audio" -> 2
      [] p \in {"detect_vocal_segments", "scan"} -> 3
      [] p \in {"generate_srt", "clip", "transcribe"} -> 4
      [] p = "finally" -> 5
      [] p = "returned" -> 6

Done == pc = "returned" /\ err = "none"

\* C13: the stages run in the order extract_audio, separate_audio,
\* detect_vocal_segments, generate_srt; no step goes back to an earlier stage
\* or starts one again, a step without failure moves at most to the next
\* stage, and the run is done only with the subtitle file written in full.
C13_StagesInOrder ==
    /\ [](Done => (output_srt \in files /\ idx = Len(df) /\ Len(srt) = Len(csv.rows)))
    /\ [][/\ StageRank(pc') >= StageRank(pc)
          /\ (err' = "none" => StageRank(pc') <= StageRank(pc) + 1)]_vars

C13_Witness ==
    /\ Done
    /\ Len(srt) = 2

\* C14: once a stage has failed, the run is in its failure path for good: no
\* stage runs any more, nothing is dispatched or written, the failure stays
\* recorded, and nothing follows the return.
C14_FailureIsTerminal ==
    /\ [](err # "none" => pc \in {"finally", "returned"})
    /\ [][err # "none" =>
            (err' = err /\ srt' = srt /\ dispatched' = dispatched /\ csv' = csv)]_vars
    /\ [][pc = "returned" => UNCHANGED vars]_vars

C14_Witness ==
    /\ pc = "returned"
    /\ err = "separate_audio"

\* C15: a run in which a stage failed does not return to its caller as a
\* normal completion.
C15_FailureNotReturnedAsSuccess ==
    pc = "returned" => err = "none"

\* C16: a run that ended in failure has left no subtitle file behind.
C16_NoOutputAfterFailure ==
    (pc = "returned" /\ err # "none") => output_srt \notin files

\* C17: no entry is in the subtitle file before the extraction and
\* transcription of every interval has finished.
C17_NoEntryBeforeAllSegmentsDone ==
    srt # <<>> => idx = Len(df)

\* C18: a run over n intervals that completes has written exactly the entries
\* 1..n, one per interval, also for a transcript that is empty.
C18_EntriesNumberedOneToN ==
    (pc \in {"finally", "returned"} /\ err = "none") =>
        /\ Len(srt) = Len(csv.rows)
        /\ \A k \in 1..Len(srt) : srt[k].num = k

C18_Witness ==
    /\ Done
    /\ Len(srt) = 2
    /\ srt[1].text = ""
    /\ srt[2].text # ""

-----------------------------------------------------------------------------
(* format_time *)

\* C19: the entry of the interval (3661.5, 3662.999) carries the timestamps
\* 01:01:01,500 and 01:01:02,999.
C19_ExampleTimestamps ==
    \A k \in 1..Len(srt) :
        (df[k].start_time = 3661500 /\ df[k].end_time = 3662999) =>
            /\ srt[k].from = <<<<0, 1>>, <<0, 1>>, <<0, 1>>, <<5, 0, 0>>>>
            /\ srt[k].to = <<<<0, 1>>, <<0, 1>>, <<0, 2>>, <<9, 9, 9>>>>

RECURSIVE DigitsValue(_)
DigitsValue(ds) ==
    IF ds = <<>> THEN 0
    ELSE 10 * DigitsValue(SubSeq(ds, 1, Len(ds) - 1)) + ds[Len(ds)]

\* the fields f are the floor cascade of t milliseconds, padded to 2, 2, 2, 3
FieldsRebuild(f, t) ==
    /\ Len(f[1]) >= 2 /\ Len(f[2]) = 2 /\ Len(f[3]) = 2 /\ Len(f[4]) = 3
    /\ DigitsValue(f[2]) < 60
    /\ DigitsValue(f[3]) < 60
    /\ DigitsValue(f[1]) * 3600000 + DigitsValue(f[2]) * 60000
         + DigitsValue(f[3]) * 1000 + DigitsValue(f[4]) = t

\* C20: the formatted fields of every time t of whole milliseconds are within
\* their ranges, padded, and add up to t again.
C20_FieldsAddUpToTime ==
    \A k \in 1..Len(srt) :
        /\ FieldsRebuild(srt[k].from, df[k].start_time)
        /\ FieldsRebuild(srt[k].to, df[k].end_time)

-----------------------------------------------------------------------------
(* Framing and classification *)

FullFrame(k) == FrameLen(k, audio_len, frame_duration) = frame_size(frame_duration)

AtFrame == pc = "scan" /\ i < NumFrames(audio_len, frame_duration)

\* C21 as stated: a frame whose length is not the frame size makes the
\* classification fail.
C21_OddFrameRaises ==
    [][(AtFrame /\ ~FullFrame(i)) => err' = "detect_vocal_segments"]_vars

\* C21 as amended: a frame whose length is not the frame size is passed over
\* without an error and without a decision; the scan goes on to the next
\* frame with the open interval and the list as they were.
C21_OddFrameSkipped ==
    [][(AtFrame /\ ~FullFrame(i)) =>
            /\ err' = err
            /\ start' = start
            /\ timestamps' = timestamps
            /\ pc' = "scan"
            /\ i' = i + 1]_vars

\* the short last frame has been passed over while an interval was open
C21_Witness ==
    /\ pc = "scan"
    /\ i = NumFrames(audio_len, frame_duration)
    /\ i > 0
    /\ ~FullFrame(i - 1)
    /\ start # None
    /\ err = "none"

RECURSIVE FrameLenSum(_)
FrameLenSum(n) ==
    IF n = 0 THEN 0
    ELSE FrameLenSum(n - 1) + FrameLen(n - 1, audio_len, frame_duration)

\* C22: the frames lie end to end over the samples without overlap, only the
\* last one can be short, exactly floor(len / frame_size) frames have the full
\* length and are classified, and no interval boundary lies beyond them.
C22_FramesTileAudio ==
    LET n == NumFrames(audio_len, frame_duration)
        full == audio_len \div frame_size(frame_duration)
    IN  /\ \A k \in 0..(n - 1) :
            /\ FrameLen(k, audio_len, frame_duration) > 0
            /\ FrameLen(k, audio_len, frame_duration) <= frame_size(frame_duration)
            /\ (~FullFrame(k) => k = n - 1)
        /\ FrameLenSum(n) = audio_len
        /\ Cardinality({k \in 0..(n - 1) : FullFrame(k)}) = full
        /\ (pc = "scan" => i <= n)
        /\ \A k \in 1..Len(timestamps) : timestamps[k][2] <= (full - 1) * frame_duration

C22_Witness ==
    /\ ScanFinished
    /\ audio_len % frame_size(frame_duration) # 0
    /\ Len(timestamps) >= 1

\* C26: every interval of the list ends after it starts.
C26_EndAfterStart ==
    \A k \in 1..Len(timestamps) : timestamps[k][2] > timestamps[k][1]

\* min_duration = 0 and an interval of a single frame
C26_Witness ==
    /\ ScanFinished
    /\ min_duration = 0
    /\ \E k \in 1..Len(timestamps) :
            timestamps[k][2] - timestamps[k][1] = frame_duration

-----------------------------------------------------------------------------
(* Segments in flight *)

Dispatched == {dispatched[k] : k \in 1..Len(dispatched)}

Written == {srt[k].num - 1 : k \in 1..Len(srt)}

InFlight == Dispatched \ (Written \cup failed)

\* C23: at most one segment is in flight at any moment (so never more than a
\* pool size of one or more), and no index is dispatched twice.
C23_AtMostOneInFlight ==
    /\ Cardinality(InFlight) <= 1
    /\ \A j, k \in 1..Len(dispatched) : j # k => dispatched[j] # dispatched[k]

C23_Witness ==
    /\ pc = "transcribe"
    /\ Len(srt) = 1
    /\ InFlight = {1}

\* C24: once cancellation has been requested no further segment is
\* dispatched, and the run does not end as done.
C24_CancelStopsTheRun ==
    /\ [][cancel_requested => dispatched' = dispatched]_vars
    /\ [](cancel_requested => ~Done)

\* C25: the run does not wait without end for a segment's transcription.
C25_SegmentCallDoesNotBlock ==
    (pc = "transcribe") ~> (pc # "transcribe")

\* C27: entry k carries the number, the formatted start and end of interval k
\* of the list, and its text is the transcript of the clip cut for exactly
\* that interval.
C27_TextPairedWithInterval ==
    /\ Len(clips) = Len(dispatched)
    /\ Len(srt) <= Len(clips)
    /\ \A k \in 1..Len(srt) :
        /\ dispatched[k] = srt[k].num - 1
        /\ clips[k] = timestamps[k]
        /\ srt[k].from = format_time(clips[k][1])
        /\ srt[k].to = format_time(clips[k][2])

C27_Witness ==
    /\ Done
    /\ Len(srt) = 2
    /\ srt[1].text # srt[2].text
    /\ clips[1] # clips[2]

\* C28: every run comes to its return, with the finally block done.
C28_RunTerminates ==
    <>(pc = "returned" /\ files \cap {audio_path, vocal_path, vocal_csv} = {})

\* a run that failed in the middle of generate_srt has returned
C28_Witness ==
    /\ pc = "returned"
    /\ err = "generate_srt"
    /\ Len(srt) = 1
    /\ files \cap {audio_path, vocal_path, vocal_csv} = {}

\* C30: the interval list generate_srt reads is the one this run's own
\* detect_vocal_segments produced.
C30_ReadsOwnIntervals ==
    output_srt \in files => df = read_csv(to_csv(timestamps))

-----------------------------------------------------------------------------
(* Polling threads *)

\* C31: once stop() has assigned self.running = False the loop begins at
\* most one more iteration.
C31_LoopExitsAfterStop ==
    iterations_after_stop <= 1

-----------------------------------------------------------------------------
(* The main window *)

\* C32: once the player has been told to play or to pause, is_playing is true
\* exactly when the command it was last given is play.
C32_IsPlayingTracksPlayer ==
    player_cmd \in {"play", "pause"} =>
        (is_playing <=> player_cmd = "play")

\* C33: no SliderSyncThread is created while an earlier one is alive; after
\* a mouse-button release slider_dragging is False, the thread the release
\* stopped does not go on running, and when stop() has returned the thread
\* has finished and slider_sync_thread is None.
C33_OneSyncThreadStoppedOnRelease ==
    /\ ~thread_leaked
    /\ (last = "MouseButtonRelease" => ~slider_dragging)
    /\ (stop_pc = "wait" => ~running)
    /\ (stop_pc = "returned" =>
            /\ ~slider_sync_thread
            /\ thread_pc = "finished")

\* C34: while slider_dragging is true the value of the position slider is
\* changed by the user's mouse events on the slider only.
C34_OnlyDragEventsMoveSlider ==
    [][(slider_dragging /\ slider_value' # slider_value)
            => last' \in {"MouseButtonPress", "MouseMove"}]_vars

\* C35: after the sound button muted a volume v > 0 the volume slider and
\* the player volume are 0 and v is remembered; after it un-muted, both are v
\* again.
C35_MuteThenUnmuteRestoresVolume ==
    last = "clickedSoundbtn" =>
        IF volume_slider = 0
        THEN /\ player_volume = 0
             /\ storedVolume = volume_before_mute
        ELSE /\ volume_slider = volume_before_mute
             /\ player_volume = volume_before_mute

C35_Witness ==
    /\ last = "clickedSoundbtn"
    /\ volume_before_mute = 30
    /\ volume_slider = 30
    /\ player_volume = 30

=============================================================================
